---- MODULE Spec2Model ----
(***************************************************************************)
(* Model of the hotel_merger merge and deduplication engine               *)
(* (src/hotel_merger/utils.py).                                            *)
(*                                                                         *)
(* Python values are represented as follows.                               *)
(*   str            a TLA+ string; characters are read with Ch(s, i)       *)
(*   list           a sequence                                             *)
(*   dict (hotel, location, amenities, images)                             *)
(*                  a record whose DOMAIN is the set of keys present       *)
(*   dict (image)   a sequence of <<key, value>> pairs in insertion order  *)
(*   None / str / number held in a scalar field                            *)
(*                  a tagged record, see PyNone, PyStr, PyNum              *)
(*   float          an integer number of tenths (44.5 is 445)              *)
(***************************************************************************)
EXTENDS Integers, Sequences, FiniteSets, TLC

VARIABLES
    \* ---- merge_hotel_data ----
    hotels,             \* the argument: a list of references to raw records
    hotels0,            \* the raw records' values when the call started
    heap,               \* object store: reference -> dict value
    i,                  \* index of the next element of hotels to visit
    merged,             \* the dict `merged`: sequence of [key, ref], insertion order
    pc,                 \* "idle" | "loop" | "done" | "raised"
    \* ---- deduplicate_amenities_fuzzy ----
    amenities,          \* the argument: a list of strings
    unique,             \* local list `unique`
    normalized_unique,  \* local list `normalized_unique`
    k,                  \* index of the next element of amenities to visit
    dpc,                \* "idle" | "loop" | "done"
    \* ---- deduplicate_list ----
    items,              \* the argument: a list of image dicts or of strings
    items_kind,         \* "dict" | "str": what isinstance(items[0], dict) finds
    uniq_dict,          \* the dict `unique`: sequence of <<key, item>>
    normalized_set,     \* local set `normalized_set`
    unique_list,        \* local list `unique_list`
    li,                 \* index of the next element of items to visit
    returned,           \* the returned list
    lpc,                \* "idle" | "start" | "dict" | "str" | "done"
    \* ---- fetch_hotels_from_suppliers ----
    payloads,           \* what each supplier's endpoint answers
    si,                 \* index of the supplier the loop is at
    all_hotels,         \* local list `all_hotels`
    stderr,             \* the lines printed to sys.stderr
    fpc                 \* "idle" | "loop" | "done"

vars == <<hotels, hotels0, heap, i, merged, pc,
          amenities, unique, normalized_unique, k, dpc,
          items, items_kind, uniq_dict, normalized_set, unique_list, li, returned, lpc,
          payloads, si, all_hotels, stderr, fpc>>

mergeVars == <<hotels, hotels0, heap, i, merged, pc>>
dedupVars == <<amenities, unique, normalized_unique, k, dpc>>
listVars == <<items, items_kind, uniq_dict, normalized_set, unique_list, li, returned, lpc>>
fetchVars == <<payloads, si, all_hotels, stderr, fpc>>

(***************************************************************************)
(* Bounds                                                                  *)
(***************************************************************************)
MaxHotels == 3
MaxAmenities == 3
MaxItems == 3
MaxPayload == 2

(***************************************************************************)
(* Characters and the str methods the code uses                            *)
(***************************************************************************)
Ch(s, n) == SubSeq(s, n, n)

UpperLetters == "ABCDEFGHIJKLMNOPQRSTUVWXYZ"
LowerLetters == "abcdefghijklmnopqrstuvwxyz"
Digits == "0123456789"
Whitespace == " \t\n"

IndexIn(c, s) ==
    IF \E n \in 1..Len(s) : Ch(s, n) = c
    THEN CHOOSE n \in 1..Len(s) : Ch(s, n) = c
    ELSE 0

Max(a, b) == IF a >= b THEN a ELSE b
Min(a, b) == IF a <= b THEN a ELSE b

lower_char(c) ==
    LET n == IndexIn(c, UpperLetters)
    IN IF n = 0 THEN c ELSE Ch(LowerLetters, n)

upper_char(c) ==
    LET n == IndexIn(c, LowerLetters)
    IN IF n = 0 THEN c ELSE Ch(UpperLetters, n)

RECURSIVE lower(_)
lower(s) ==
    IF s = "" THEN ""
    ELSE lower_char(Ch(s, 1)) \o lower(SubSeq(s, 2, Len(s)))

RECURSIVE upper(_)
upper(s) ==
    IF s = "" THEN ""
    ELSE upper_char(Ch(s, 1)) \o upper(SubSeq(s, 2, Len(s)))

\* str.capitalize(): first character upper-cased, the rest lower-cased
capitalize(s) ==
    IF s = "" THEN ""
    ELSE upper_char(Ch(s, 1)) \o lower(SubSeq(s, 2, Len(s)))

IsSpace(c) == IndexIn(c, Whitespace) # 0

RECURSIVE lstrip(_)
lstrip(s) ==
    IF s # "" /\ IsSpace(Ch(s, 1)) THEN lstrip(SubSeq(s, 2, Len(s))) ELSE s

RECURSIVE rstrip(_)
rstrip(s) ==
    IF s # "" /\ IsSpace(Ch(s, Len(s))) THEN rstrip(SubSeq(s, 1, Len(s) - 1)) ELSE s

\* Variant: only leading whitespace is removed
strip_LeftOnly(s) == lstrip(s)

strip(s) == rstrip(lstrip(s))

(***************************************************************************)
(* normalize_amenity, string_similarity                                    *)
(***************************************************************************)
IsLowerAlnum(c) == IndexIn(c, LowerLetters) # 0 \/ IndexIn(c, Digits) # 0

\* re.sub(r'[^a-z0-9]', '', s): drop every character outside [a-z0-9]
RECURSIVE sub_non_alnum(_)
sub_non_alnum(s) ==
    IF s = "" THEN ""
    ELSE (IF IsLowerAlnum(Ch(s, 1)) THEN Ch(s, 1) ELSE "")
         \o sub_non_alnum(SubSeq(s, 2, Len(s)))

normalize_amenity(amenity) == sub_non_alnum(lower(amenity))

\* sum(1 for a, b in zip(str1, str2) if a == b)
Matches(str1, str2) ==
    Cardinality({n \in 1..Min(Len(str1), Len(str2)) : Ch(str1, n) = Ch(str2, n)})

\* Variant: two empty strings count as identical
string_similarity_EmptyEqual(str1, str2) ==
    IF Max(Len(str1), Len(str2)) > 0
    THEN [num |-> Matches(str1, str2), den |-> Max(Len(str1), Len(str2))]
    ELSE [num |-> 1, den |-> 1]

\* The ratio matches / max(len) as a fraction; 0 when both strings are empty.
string_similarity(str1, str2) ==
    IF Max(Len(str1), Len(str2)) > 0
    THEN [num |-> Matches(str1, str2), den |-> Max(Len(str1), Len(str2))]
    ELSE [num |-> 0, den |-> 1]

\* cutoff = 0.8 = CutoffNum / CutoffDen
CutoffNum == 4
CutoffDen == 5

\* Variant: `similarity > cutoff`
AtLeastCutoff_Strict(similarity) ==
    similarity.num * CutoffDen > CutoffNum * similarity.den

\* similarity >= cutoff
AtLeastCutoff(similarity) == similarity.num * CutoffDen >= CutoffNum * similarity.den

(***************************************************************************)
(* deduplicate_amenities_fuzzy                                             *)
(***************************************************************************)
\* Variant: the most similar representative is taken, not the first similar one
FirstMatch_Best(nu, amenity_normalized) ==
    LET sim(n) == string_similarity(amenity_normalized, nu[n])
        hits == {n \in 1..Len(nu) : AtLeastCutoff(sim(n))}
        better(m, n) == sim(m).num * sim(n).den > sim(n).num * sim(m).den
    IN IF hits = {} THEN 0
       ELSE CHOOSE n \in hits :
                \A m \in hits : ~better(m, n) /\ (m < n => better(n, m))

\* The inner for loop: index of the first representative whose key is
\* similar to the incoming key, 0 when the loop ends without a break.
FirstMatch(nu, amenity_normalized) ==
    LET hits == {n \in 1..Len(nu) :
                    AtLeastCutoff(string_similarity(amenity_normalized, nu[n]))}
    IN IF hits = {} THEN 0
       ELSE CHOOSE n \in hits : \A m \in hits : n <= m

\* Variant: the lengths of the normalized keys are compared
PrefersIncoming_Normalized(amenity, existing) ==
    Len(normalize_amenity(amenity)) > Len(normalize_amenity(existing))

\* `if len(amenity.strip()) > len(unique[idx])`
PrefersIncoming(amenity, existing) == Len(strip(amenity)) > Len(existing)

\* Variant: a new representative is inserted at the front of the lists
DedupStep_Prepend(u, nu, amenity) ==
    LET amenity_normalized == normalize_amenity(amenity)
        idx == FirstMatch(nu, amenity_normalized)
    IN IF idx = 0
       THEN [unique |-> <<strip(amenity)>> \o u,
             normalized_unique |-> <<amenity_normalized>> \o nu]
       ELSE IF PrefersIncoming(amenity, u[idx])
            THEN [unique |-> [u EXCEPT ![idx] = strip(amenity)],
                  normalized_unique |-> [nu EXCEPT ![idx] = amenity_normalized]]
            ELSE [unique |-> u, normalized_unique |-> nu]

\* One iteration of the outer for loop.
DedupStep(u, nu, amenity) ==
    LET amenity_normalized == normalize_amenity(amenity)
        idx == FirstMatch(nu, amenity_normalized)
    IN IF idx = 0
       THEN [unique |-> Append(u, strip(amenity)),
             normalized_unique |-> Append(nu, amenity_normalized)]
       ELSE IF PrefersIncoming(amenity, u[idx])
            THEN [unique |-> [u EXCEPT ![idx] = strip(amenity)],
                  normalized_unique |-> [nu EXCEPT ![idx] = amenity_normalized]]
            ELSE [unique |-> u, normalized_unique |-> nu]

RECURSIVE DedupFold(_, _, _)
DedupFold(u, nu, rest) ==
    IF rest = <<>> THEN u
    ELSE LET st == DedupStep(u, nu, Head(rest))
         IN DedupFold(st.unique, st.normalized_unique, Tail(rest))

deduplicate_amenities_fuzzy(xs) == DedupFold(<<>>, <<>>, xs)

(***************************************************************************)
(* Python scalars, truthiness, `or`, dict.get                              *)
(***************************************************************************)
PyNone == [ty |-> "NoneType"]
PyStr(s) == [ty |-> "str", v |-> s]
PyNum(n) == [ty |-> "num", v |-> n]

\* Variant: only None is falsy (`x is not None`)
Truthy_NotNone(x) == x.ty # "NoneType"

\* bool(x): None, "" and 0 are falsy
Truthy(x) ==
    CASE x.ty = "NoneType" -> FALSE
      [] x.ty = "str" -> x.v # ""
      [] x.ty = "num" -> x.v # 0

\* Variant: `b or a`, the incoming value wins when it is truthy
Or_PreferNew(a, b) == IF Truthy(b) THEN b ELSE a

\* `a or b`
Or(a, b) == IF Truthy(a) THEN a ELSE b

\* d.get(key): None when the key is absent
Get(d, key) == IF key \in DOMAIN d THEN d[key] ELSE PyNone

\* d.get(key, default)
GetDefault(d, key, default) == IF key \in DOMAIN d THEN d[key] ELSE default

\* The empty dict {} passed as a default
EmptyDict == [x \in {} |-> PyNone]

(***************************************************************************)
(* standardize_country, capitalize_first_letter                            *)
(***************************************************************************)
CountryKeys ==
    {"US", "USA", "UNITED STATES OF AMERICA", "UK", "GB", "GREAT BRITAIN",
     "CAN", "CA", "CANADA", "AUS", "AU", "AUSTRALIA", "SG", "SIN", "SINGAPORE",
     "JP", "JPN"}

country_mapping(c) ==
    CASE c \in {"US", "USA", "UNITED STATES OF AMERICA"} -> "United States"
      [] c \in {"UK", "GB", "GREAT BRITAIN"} -> "United Kingdom"
      [] c \in {"CAN", "CA", "CANADA"} -> "Canada"
      [] c \in {"AUS", "AU", "AUSTRALIA"} -> "Australia"
      [] c \in {"SG", "SIN", "SINGAPORE"} -> "Singapore"
      [] c \in {"JP", "JPN"} -> "Japan"

\* The argument is a str here; "" stands for both "" and None (both falsy).
standardize_country(country) ==
    IF country = "" THEN ""
    ELSE LET c == upper(strip(country))
         IN IF c \in CountryKeys THEN country_mapping(c) ELSE capitalize(c)

SentenceEnd == {".", "!", "?"}

\* First index >= n of text that does not hold a space (Len(text) + 1 if none)
RECURSIVE SkipSpaces(_, _)
SkipSpaces(text, n) ==
    IF n <= Len(text) /\ Ch(text, n) = " " THEN SkipSpaces(text, n + 1) ELSE n

\* re.split('(?<=[.!?]) +', text): cut at every run of spaces that follows
\* one of . ! ? ; cur is the piece being collected, n the next index.
RECURSIVE SplitSentences(_, _, _)
SplitSentences(text, n, cur) ==
    IF n > Len(text) THEN <<cur>>
    ELSE IF Ch(text, n) = " " /\ n > 1 /\ Ch(text, n - 1) \in SentenceEnd
         THEN <<cur>> \o SplitSentences(text, SkipSpaces(text, n), "")
         ELSE SplitSentences(text, n + 1, cur \o Ch(text, n))

\* ' '.join(parts)
RECURSIVE JoinSpace(_)
JoinSpace(parts) ==
    IF parts = <<>> THEN ""
    ELSE IF Len(parts) = 1 THEN parts[1]
    ELSE parts[1] \o " " \o JoinSpace(Tail(parts))

NonEmptyStr(s) == s # ""

capitalize_first_letter(text) ==
    LET sentences == SelectSeq(SplitSentences(text, 1, ""), NonEmptyStr)
    IN JoinSpace([n \in 1..Len(sentences) |-> capitalize(strip(sentences[n]))])

(***************************************************************************)
(* deduplicate_list, for lists of image dicts                              *)
(* An image dict is a sequence of <<key, value>> pairs in insertion order. *)
(***************************************************************************)
\* Keys an image dict may hold, in the order sort_keys=True puts them.
SortedImageKeys == <<"caption", "description", "link", "url">>

HasKey(item, key) == \E n \in 1..Len(item) : item[n][1] = key

ValueOf(item, key) == item[CHOOSE n \in 1..Len(item) : item[n][1] = key][2]

\* json.dumps(item, sort_keys=True): the pairs in key order
RECURSIVE DumpsSorted(_, _)
DumpsSorted(item, keys) ==
    IF keys = <<>> THEN <<>>
    ELSE (IF HasKey(item, Head(keys))
          THEN << <<Head(keys), ValueOf(item, Head(keys))>> >>
          ELSE <<>>)
         \o DumpsSorted(item, Tail(keys))

\* json.dumps(item): the pairs in insertion order
json_dumps_Unsorted(item) == item

json_dumps(item) == DumpsSorted(item, SortedImageKeys)

\* `if item`: an empty dict is falsy
NonEmptyDict(item) == item # <<>>

\* {json.dumps(item, sort_keys=True): item for item in items if item}:
\* a key keeps the position of its first insertion and the value of its last.
\* One item of the comprehension
DictPut(acc, item) ==
    LET key == json_dumps(item)
        pos == IF \E n \in 1..Len(acc) : acc[n][1] = key
               THEN CHOOSE n \in 1..Len(acc) : acc[n][1] = key
               ELSE 0
    IN IF ~NonEmptyDict(item) THEN acc
       ELSE IF pos = 0 THEN Append(acc, <<key, item>>)
       ELSE [acc EXCEPT ![pos] = <<key, item>>]

RECURSIVE DictOfDumps(_, _)
DictOfDumps(acc, rest) ==
    IF rest = <<>> THEN acc
    ELSE DictOfDumps(DictPut(acc, Head(rest)), Tail(rest))

\* list(unique.values())
DictValues(d) == [n \in 1..Len(d) |-> d[n][2]]

\* One iteration of the loop of lines 212-216, on st = [set, list]
StrPut(st, item) ==
    LET normalized == normalize_amenity(item)
    IN IF normalized \notin st.set
       THEN [set |-> st.set \cup {normalized}, list |-> Append(st.list, item)]
       ELSE st

\* Lines 193-208, as merge_hotel_data calls it: on a list of image dicts.
\* The str branch (209-217) is modelled by the process below.
deduplicate_list(image_list) ==
    IF image_list = <<>> THEN <<>>
    ELSE DictValues(DictOfDumps(<<>>, image_list))

(***************************************************************************)
(* merge_hotel_data: the merge of an accumulator with an incoming record   *)
(***************************************************************************)
\* Variant: `if hotel_id is None: continue`
HasId_NotNone(hotel) == Get(hotel, "id") # PyNone

\* `if not hotel_id: continue` is taken when this is false
HasId(hotel) == Truthy(Get(hotel, "id"))

\* Variant: the membership test never finds the key
Lookup_Never(m, hotel_id) == 0

\* `hotel_id not in merged` / `merged[hotel_id]`: position of the key, 0 if absent
Lookup(m, hotel_id) ==
    IF \E n \in 1..Len(m) : m[n].key = hotel_id
    THEN CHOOSE n \in 1..Len(m) : m[n].key = hotel_id
    ELSE 0

\* Variant: the existing description wins whenever it is non-empty
MergedDescription_KeepExisting(existing_description, new_description) ==
    IF existing_description # "" THEN existing_description ELSE new_description

\* Lines 239-246
MergedDescription(existing_description, new_description) ==
    IF existing_description = "" /\ new_description # ""
    THEN new_description
    ELSE IF existing_description # "" /\ new_description # ""
         THEN (IF Len(existing_description) >= Len(new_description)
               THEN existing_description
               ELSE new_description)
         ELSE (IF existing_description # "" THEN existing_description
               ELSE new_description)

LocationFields == {"address", "country", "lat", "lng", "city"}

\* existing["location"] and hotel["location"] are subscripts, not .get():
\* a KeyError is raised when existing has no location, and when hotel has
\* none and some `or` reaches its right operand.
LocationKeyError(existing, hotel) ==
    IF "location" \notin DOMAIN existing THEN TRUE
    ELSE IF "location" \in DOMAIN hotel THEN FALSE
    ELSE \E f \in LocationFields : ~Truthy(Get(existing.location, f))

\* existing["location"].get(f) or hotel["location"].get(f)
LocationOr(existing, hotel, f) ==
    Or(Get(existing.location, f), Get(hotel.location, f))

\* existing.get(outer, {}).get(inner, []) + hotel.get(outer, {}).get(inner, [])
Concat(existing, hotel, outer, inner) ==
    GetDefault(GetDefault(existing, outer, EmptyDict), inner, <<>>)
    \o GetDefault(GetDefault(hotel, outer, EmptyDict), inner, <<>>)

\* The dict literal of lines 274-296
MergeRecord(hotel_id, existing, hotel) ==
    [id |-> hotel_id,
     destination_id |-> Or(Get(existing, "destination_id"), Get(hotel, "destination_id")),
     name |-> Or(Get(existing, "name"), Get(hotel, "name")),
     description |-> capitalize_first_letter(
                         MergedDescription(GetDefault(existing, "description", ""),
                                           GetDefault(hotel, "description", ""))),
     location |-> [lat |-> LocationOr(existing, hotel, "lat"),
                   lng |-> LocationOr(existing, hotel, "lng"),
                   address |-> LocationOr(existing, hotel, "address"),
                   city |-> LocationOr(existing, hotel, "city"),
                   country |-> LocationOr(existing, hotel, "country")],
     amenities |-> [general |-> deduplicate_amenities_fuzzy(
                                    Concat(existing, hotel, "amenities", "general")),
                    room |-> deduplicate_amenities_fuzzy(
                                    Concat(existing, hotel, "amenities", "room"))],
     images |-> [rooms |-> deduplicate_list(Concat(existing, hotel, "images", "rooms")),
                 site |-> deduplicate_list(Concat(existing, hotel, "images", "site")),
                 amenities |-> deduplicate_list(
                                    Concat(existing, hotel, "images", "amenities"))],
     booking_conditions |-> deduplicate_amenities_fuzzy(
                                GetDefault(existing, "booking_conditions", <<>>)
                                \o GetDefault(hotel, "booking_conditions", <<>>))]

\* Variant: `existing.update({...})`, the accumulator object is overwritten
StoreMerged_InPlace(st, pos, rec) ==
    [st EXCEPT !.heap = [@ EXCEPT ![st.merged[pos].ref] = rec]]

\* `merged[hotel_id] = {...}`: the literal is a new object, the entry is rebound
StoreMerged(st, pos, rec) ==
    [st EXCEPT !.heap = Append(@, rec),
               !.merged = [@ EXCEPT ![pos] = [key |-> @.key, ref |-> Len(st.heap) + 1]]]

\* The body of `for hotel in hotels:` on the program state
\* st = [heap, merged, pc]; ref is the reference bound to `hotel`.
Iteration(st, ref) ==
    LET hotel == st.heap[ref]
        hotel_id == Get(hotel, "id")
        pos == Lookup(st.merged, hotel_id)
    IN IF ~HasId(hotel) THEN st
       ELSE IF pos = 0
            THEN [st EXCEPT !.merged = Append(@, [key |-> hotel_id, ref |-> ref])]
            ELSE LET existing == st.heap[st.merged[pos].ref]
                 IN IF LocationKeyError(existing, hotel)
                    THEN [st EXCEPT !.pc = "raised"]
                    ELSE StoreMerged(st, pos, MergeRecord(hotel_id, existing, hotel))

\* list(merged.values())
Output(st) == [n \in 1..Len(st.merged) |-> st.heap[st.merged[n].ref]]

\* The whole call on a list of record values
RECURSIVE RunFrom(_, _, _)
RunFrom(st, n, len) ==
    IF st.pc = "raised" THEN st
    ELSE IF n > len THEN [st EXCEPT !.pc = "done"]
    ELSE RunFrom(Iteration(st, n), n + 1, len)

merge_hotel_data(values) ==
    RunFrom([heap |-> values, merged |-> <<>>, pc |-> "loop"], 1, Len(values))

(***************************************************************************)
(* deduplicate_amenities_fuzzy as a process: one action per iteration of   *)
(* the outer loop, one for the return.                                     *)
(***************************************************************************)
\* Strings the argument list is drawn from.
AmenityPool ==
    {"", "--", " Pool ", "Gym", "WiFi", "Wi-Fi", "TV100", "TV111", "TV-101",
     "Parking A11", "Parking B22", "Parking-B-21"}

RECURSIVE ListsUpTo(_, _)
ListsUpTo(S, n) ==
    IF n = 0 THEN {<<>>}
    ELSE LET shorter == ListsUpTo(S, n - 1)
         IN shorter \cup {Append(xs, x) : xs \in {ys \in shorter : Len(ys) = n - 1}, x \in S}

MergeIdle ==
    /\ hotels = <<>>
    /\ hotels0 = <<>>
    /\ heap = <<>>
    /\ i = 1
    /\ merged = <<>>
    /\ pc = "idle"

DedupIdle ==
    /\ amenities = <<>>
    /\ unique = <<>>
    /\ normalized_unique = <<>>
    /\ k = 1
    /\ dpc = "idle"

ListIdle ==
    /\ items = <<>>
    /\ items_kind = "dict"
    /\ uniq_dict = <<>>
    /\ normalized_set = {}
    /\ unique_list = <<>>
    /\ li = 1
    /\ returned = <<>>
    /\ lpc = "idle"

FetchIdle ==
    /\ payloads = <<>>
    /\ si = 1
    /\ all_hotels = <<>>
    /\ stderr = <<>>
    /\ fpc = "idle"

InitDedup ==
    /\ amenities \in ListsUpTo(AmenityPool, MaxAmenities)
    /\ unique = <<>>
    /\ normalized_unique = <<>>
    /\ k = 1
    /\ dpc = "loop"
    /\ MergeIdle
    /\ ListIdle
    /\ FetchIdle

\* `for amenity in amenities:` body
DedupIterate ==
    /\ dpc = "loop"
    /\ k <= Len(amenities)
    /\ LET st == DedupStep(unique, normalized_unique, amenities[k])
       IN /\ unique' = st.unique
          /\ normalized_unique' = st.normalized_unique
    /\ k' = k + 1
    /\ UNCHANGED <<amenities, dpc>>
    /\ UNCHANGED <<mergeVars, listVars, fetchVars>>

\* `return unique`
DedupReturn ==
    /\ dpc = "loop"
    /\ k > Len(amenities)
    /\ dpc' = "done"
    /\ UNCHANGED <<amenities, unique, normalized_unique, k>>
    /\ UNCHANGED <<mergeVars, listVars, fetchVars>>

NextDedup == DedupIterate \/ DedupReturn

SpecDedup == InitDedup /\ [][NextDedup]_vars

(***************************************************************************)
(* merge_hotel_data as a process                                           *)
(***************************************************************************)
EmptyLocation ==
    [lat |-> PyNone, lng |-> PyNone,
     address |-> PyStr(""), city |-> PyStr(""), country |-> PyStr("")]

\* A raw record of the common shape with every field blank
Blank(id) ==
    [id |-> PyStr(id), destination_id |-> PyNone, name |-> PyStr(""),
     description |-> "", location |-> EmptyLocation,
     amenities |-> [general |-> <<>>, room |-> <<>>],
     images |-> [rooms |-> <<>>, site |-> <<>>, amenities |-> <<>>],
     booking_conditions |-> <<>>]

Image(link, description) == << <<"link", link>>, <<"description", description>> >>
ImageReversed(link, description) == << <<"description", description>>, <<"link", link>> >>

RecA ==
    [Blank("iJhz") EXCEPT
        !.location = [lat |-> PyNone, lng |-> PyNone, address |-> PyStr(""),
                      city |-> PyStr("Santa Monica"), country |-> PyStr("US")],
        !.amenities.general = <<"Pool", "WIFI">>]

RecB ==
    [Blank("iJhz") EXCEPT
        !.location = [lat |-> PyNum(445), lng |-> PyNum(-732),
                      address |-> PyStr("134 Ocean Drive"),
                      city |-> PyStr(""), country |-> PyStr("")],
        !.amenities.general = <<"wifi", "Gym">>,
        !.description = "Oceanfront views."]

RecX1 == Blank("X")
RecX2 == [Blank("X") EXCEPT !.description = "Ocean views."]
RecX3 == [Blank("X") EXCEPT !.description = "A short stay."]

\* id present but empty
RecEmptyId ==
    [Blank("") EXCEPT !.name = PyStr("Ghost"), !.description = "No id.",
                      !.amenities.general = <<"Sauna">>]

\* no id key at all
RecMissingId ==
    [name |-> PyStr("Ghost"), description |-> "No id.", location |-> EmptyLocation]

\* no location key (and no amenities, images, booking_conditions)
RecNoLocation == [id |-> PyStr("X"), name |-> PyStr("Bare"), description |-> "Ocean views."]

\* numeric zeros and a whitespace-only description
RecZero ==
    [Blank("X") EXCEPT !.destination_id = PyNum(0),
                       !.location.lat = PyNum(0), !.location.lng = PyNum(0),
                       !.description = " "]

RecY1 ==
    [Blank("Y") EXCEPT
        !.destination_id = PyNum(5432), !.name = PyStr("Beach Villas"),
        !.location = [lat |-> PyNum(13), lng |-> PyNum(1038),
                      address |-> PyStr("8 Sentosa Gateway"),
                      city |-> PyStr("Singapore"), country |-> PyStr("SG")],
        !.amenities = [general |-> <<"TV100", "TV111">>, room |-> <<"Tub", "tub">>],
        !.images.rooms = <<Image("u1", "Double room"), Image("u2", "Bath")>>,
        !.booking_conditions = <<"Pets allowed.">>]

RecY2 ==
    [Blank("Y") EXCEPT
        !.destination_id = PyNum(1122), !.name = PyStr("Beach Villas Singapore"),
        !.location = [lat |-> PyNum(12), lng |-> PyNum(1039),
                      address |-> PyStr("Sentosa"),
                      city |-> PyStr("SG"), country |-> PyStr("Singapore")],
        !.amenities.general = <<"TV-101">>,
        !.images.rooms = <<ImageReversed("u1", "Double room"), Image("u3", "Suite")>>,
        !.booking_conditions = <<"Pets allowed", "No smoking.">>]

RawRecords ==
    {RecA, RecB, RecX1, RecX2, RecX3, RecEmptyId, RecMissingId, RecNoLocation,
     RecZero, RecY1, RecY2}

Init ==
    /\ hotels0 \in ListsUpTo(RawRecords, MaxHotels)
    /\ heap = hotels0
    /\ hotels = [n \in 1..Len(hotels0) |-> n]
    /\ i = 1
    /\ merged = <<>>
    /\ pc = "loop"
    /\ DedupIdle
    /\ ListIdle
    /\ FetchIdle

\* One pass through the loop body, whichever branch it takes
Iterate ==
    LET st == Iteration([heap |-> heap, merged |-> merged, pc |-> pc], hotels[i])
    IN /\ heap' = st.heap
       /\ merged' = st.merged
       /\ pc' = st.pc
       /\ i' = IF st.pc = "raised" THEN i ELSE i + 1
       /\ UNCHANGED <<hotels, hotels0>>
       /\ UNCHANGED <<dedupVars, listVars, fetchVars>>

InLoop == pc = "loop" /\ i <= Len(hotels)

\* `if not hotel_id: continue`
SkipNoId ==
    /\ InLoop
    /\ ~HasId(heap[hotels[i]])
    /\ Iterate

\* `if hotel_id not in merged: merged[hotel_id] = hotel`
InsertFirst ==
    /\ InLoop
    /\ HasId(heap[hotels[i]])
    /\ Lookup(merged, Get(heap[hotels[i]], "id")) = 0
    /\ Iterate

\* the else branch, running to the assignment of line 274
MergeExisting ==
    /\ InLoop
    /\ HasId(heap[hotels[i]])
    /\ Lookup(merged, Get(heap[hotels[i]], "id")) # 0
    /\ ~LocationKeyError(heap[merged[Lookup(merged, Get(heap[hotels[i]], "id"))].ref],
                         heap[hotels[i]])
    /\ Iterate

\* the else branch, leaving with a KeyError
MergeRaises ==
    /\ InLoop
    /\ HasId(heap[hotels[i]])
    /\ Lookup(merged, Get(heap[hotels[i]], "id")) # 0
    /\ LocationKeyError(heap[merged[Lookup(merged, Get(heap[hotels[i]], "id"))].ref],
                        heap[hotels[i]])
    /\ Iterate

\* `return list(merged.values())`
Return ==
    /\ pc = "loop"
    /\ i > Len(hotels)
    /\ pc' = "done"
    /\ UNCHANGED <<hotels, hotels0, heap, i, merged>>
    /\ UNCHANGED <<dedupVars, listVars, fetchVars>>

Next == SkipNoId \/ InsertFirst \/ MergeExisting \/ MergeRaises \/ Return

Spec == Init /\ [][Next]_vars

\* The returned list, once the call has returned
Result == Output([heap |-> heap, merged |-> merged, pc |-> pc])

(***************************************************************************)
(* deduplicate_list as a process                                           *)
(***************************************************************************)
\* An empty dict among the images
EmptyImage == <<>>

ImagePool ==
    {Image("u1", "Double room"), ImageReversed("u1", "Double room"),
     Image("u1", "Bath"), Image("u2", "Double room"), Image("u2", "Bath"),
     EmptyImage}

StringPool == {"WiFi", "Wi-Fi", "wifi", "Gym"}

InitList ==
    /\ \/ items_kind = "dict" /\ items \in ListsUpTo(ImagePool, MaxItems)
       \/ items_kind = "str" /\ items \in ListsUpTo(StringPool, MaxItems) \ {<<>>}
    /\ uniq_dict = <<>>
    /\ normalized_set = {}
    /\ unique_list = <<>>
    /\ li = 1
    /\ returned = <<>>
    /\ lpc = "start"
    /\ MergeIdle
    /\ DedupIdle
    /\ FetchIdle

ListFrame == UNCHANGED <<items, items_kind, mergeVars, dedupVars, fetchVars>>

\* `if not items: return []`
ListReturnEmpty ==
    /\ lpc = "start"
    /\ items = <<>>
    /\ returned' = <<>>
    /\ lpc' = "done"
    /\ UNCHANGED <<uniq_dict, normalized_set, unique_list, li>>
    /\ ListFrame

\* `if isinstance(items[0], dict):` and the branch after it
ListDispatch ==
    /\ lpc = "start"
    /\ items # <<>>
    /\ lpc' = items_kind
    /\ UNCHANGED <<uniq_dict, normalized_set, unique_list, li, returned>>
    /\ ListFrame

\* one item of the dict comprehension of line 207
DictIterate ==
    /\ lpc = "dict"
    /\ li <= Len(items)
    /\ uniq_dict' = DictPut(uniq_dict, items[li])
    /\ li' = li + 1
    /\ UNCHANGED <<normalized_set, unique_list, returned, lpc>>
    /\ ListFrame

\* `return list(unique.values())`
DictReturn ==
    /\ lpc = "dict"
    /\ li > Len(items)
    /\ returned' = DictValues(uniq_dict)
    /\ lpc' = "done"
    /\ UNCHANGED <<uniq_dict, normalized_set, unique_list, li>>
    /\ ListFrame

\* one iteration of `for item in items:` (lines 212-216)
StrIterate ==
    /\ lpc = "str"
    /\ li <= Len(items)
    /\ LET st == StrPut([set |-> normalized_set, list |-> unique_list], items[li])
       IN /\ normalized_set' = st.set
          /\ unique_list' = st.list
    /\ li' = li + 1
    /\ UNCHANGED <<uniq_dict, returned, lpc>>
    /\ ListFrame

\* `return unique_list`
StrReturn ==
    /\ lpc = "str"
    /\ li > Len(items)
    /\ returned' = unique_list
    /\ lpc' = "done"
    /\ UNCHANGED <<uniq_dict, normalized_set, unique_list, li>>
    /\ ListFrame

NextList ==
    \/ ListReturnEmpty
    \/ ListDispatch
    \/ DictIterate
    \/ DictReturn
    \/ StrIterate
    \/ StrReturn

SpecList == InitList /\ [][NextList]_vars

(***************************************************************************)
(* fetch_hotels_from_suppliers as a process                                *)
(***************************************************************************)
\* list(SUPPLIERS.values()): the registry in insertion order
SUPPLIERS == <<"acme", "patagonia", "paperflies">>

\* Items of a JSON list: two that parse and one whose parsing raises inside
\* parse() (e.g. an id that is not a string)
RawItems == {"ok1", "ok2", "bad"}

\* What an endpoint can answer: a failed request, a body that is not JSON,
\* JSON that is not a list, or a JSON list
Payloads ==
    {[kind |-> "http_error"], [kind |-> "bad_json"], [kind |-> "not_list"]}
    \cup {[kind |-> "list", data |-> d] : d \in ListsUpTo(RawItems, MaxPayload)}

\* The standardized record parse() builds from an item
Parsed(supplier, item) == [source |-> supplier, raw |-> item]

\* parse(): AcmeSupplier catches every exception and returns {};
\* PatagoniaSupplier and PaperfliesSupplier raise DataParsingError
parse(supplier, item) ==
    IF item = "bad"
    THEN IF supplier = "acme"
         THEN [raised |-> "none", value |-> EmptyDict]
         ELSE [raised |-> "DataParsingError"]
    ELSE [raised |-> "none", value |-> Parsed(supplier, item)]

\* BaseSupplier.fetch: the set of ways the call can end.  A body that is not
\* JSON ends in `except json.JSONDecodeError`, or in
\* `except requests.RequestException` when the installed requests raises its
\* own JSONDecodeError, a subclass of both.
fetch(supplier, payload) ==
    IF payload.kind = "http_error" THEN {[raised |-> "SupplierFetchError"]}
    ELSE IF payload.kind = "bad_json"
    THEN {[raised |-> "DataParsingError"], [raised |-> "SupplierFetchError"]}
    ELSE IF payload.kind = "not_list" THEN {[raised |-> "DataParsingError"]}
    ELSE IF \E n \in 1..Len(payload.data) : parse(supplier, payload.data[n]).raised # "none"
    THEN {[raised |-> "DataParsingError"]}
    ELSE {[raised |-> "none",
           value |-> [n \in 1..Len(payload.data) |-> parse(supplier, payload.data[n]).value]]}

InitFetch ==
    /\ payloads \in [1..Len(SUPPLIERS) -> Payloads]
    /\ si = 1
    /\ all_hotels = <<>>
    /\ stderr = <<>>
    /\ fpc = "loop"
    /\ MergeIdle
    /\ DedupIdle
    /\ ListIdle

FetchFrame == UNCHANGED <<payloads, mergeVars, dedupVars, listVars>>

\* `hotels = supplier.fetch(); all_hotels.extend(hotels)`
FetchExtend ==
    /\ fpc = "loop"
    /\ si <= Len(SUPPLIERS)
    /\ \E r \in fetch(SUPPLIERS[si], payloads[si]) :
          /\ r.raised = "none"
          /\ all_hotels' = all_hotels \o r.value
    /\ si' = si + 1
    /\ UNCHANGED <<stderr, fpc>>
    /\ FetchFrame

\* `except SupplierFetchError as e: print(..., file=sys.stderr)`
CatchSupplierFetchError ==
    /\ fpc = "loop"
    /\ si <= Len(SUPPLIERS)
    /\ \E r \in fetch(SUPPLIERS[si], payloads[si]) : r.raised = "SupplierFetchError"
    /\ stderr' = Append(stderr, <<"Error fetching data from", SUPPLIERS[si]>>)
    /\ si' = si + 1
    /\ UNCHANGED <<all_hotels, fpc>>
    /\ FetchFrame

\* `except DataParsingError as e: print(..., file=sys.stderr)`
CatchDataParsingError ==
    /\ fpc = "loop"
    /\ si <= Len(SUPPLIERS)
    /\ \E r \in fetch(SUPPLIERS[si], payloads[si]) : r.raised = "DataParsingError"
    /\ stderr' = Append(stderr, <<"Error parsing data from", SUPPLIERS[si]>>)
    /\ si' = si + 1
    /\ UNCHANGED <<all_hotels, fpc>>
    /\ FetchFrame

\* `return all_hotels`
FetchReturn ==
    /\ fpc = "loop"
    /\ si > Len(SUPPLIERS)
    /\ fpc' = "done"
    /\ UNCHANGED <<si, all_hotels, stderr>>
    /\ FetchFrame

NextFetch ==
    \/ FetchExtend
    \/ CatchSupplierFetchError
    \/ CatchDataParsingError
    \/ FetchReturn

SpecFetch == InitFetch /\ [][NextFetch]_vars

(***************************************************************************)
(* Properties                                                              *)
(***************************************************************************)
\* An id that is missing, None or empty
BlankId(hotel) == Get(hotel, "id") \in {PyNone, PyStr("")}

\* A scalar that is null or the empty string; the number 0 is not blank
BlankScalar(x) == x \in {PyNone, PyStr("")}

NonBlankInputIds ==
    {Get(hotels0[n], "id") : n \in {m \in 1..Len(hotels0) : ~BlankId(hotels0[m])}}

\* C1: the output of merge_hotel_data holds exactly one record per distinct
\* non-empty id of the input: no two output records share an id, and the
\* set of output ids is the set of non-empty input ids.
C1_OneRecordPerId ==
    pc = "done" =>
        /\ \A m, n \in 1..Len(Result) : m # n => Result[m].id # Result[n].id
        /\ {Result[n].id : n \in 1..Len(Result)} = NonBlankInputIds

\* A run of three records that met a repeated id and a record without id
C1_Witness ==
    /\ pc = "done"
    /\ Len(hotels0) = 3
    /\ Len(Result) = 1
    /\ \E n \in 1..3 : BlankId(hotels0[n])
    /\ Len(heap) > Len(hotels0)

NotBlankId(hotel) == ~BlankId(hotel)

\* C2: records without id are skipped, and the outcome of the call is the
\* outcome of the call on the input with those records removed: the same
\* returned list, or an exception in both.
C2_BlankIdsRemovable ==
    pc \in {"done", "raised"} =>
        LET filtered == merge_hotel_data(SelectSeq(hotels0, NotBlankId))
        IN /\ filtered.pc = pc
           /\ pc = "done" =>
                /\ Output(filtered) = Result
                /\ \A n \in 1..Len(Result) : ~BlankId(Result[n])

\* A record without id stood between two records of one id, which merged
C2_Witness ==
    /\ pc = "done"
    /\ Len(hotels0) = 3
    /\ ~BlankId(hotels0[1])
    /\ BlankId(hotels0[2])
    /\ Get(hotels0[3], "id") = Get(hotels0[1], "id")
    /\ Len(heap) > Len(hotels0)

\* Field access that tolerates absent keys, for the properties
Scalar(hotel, f) ==
    IF f \in LocationFields
    THEN Get(GetDefault(hotel, "location", EmptyDict), f)
    ELSE IF f = "description" THEN PyStr(GetDefault(hotel, "description", ""))
    ELSE Get(hotel, f)

ScalarFields == {"destination_id", "name", "description"} \cup LocationFields

Contributors(id) == {hotels0[n] : n \in {m \in 1..Len(hotels0) : Get(hotels0[m], "id") = id}}

\* C3: coalescing monotonicity.  For every scalar field, if some record
\* contributing to an output record has a non-blank value (0 counts as
\* non-blank), the output record's value is non-blank.
C3_CoalescingMonotone ==
    pc = "done" =>
        \A n \in 1..Len(Result) : \A f \in ScalarFields :
            (\E c \in Contributors(Result[n].id) : ~BlankScalar(Scalar(c, f)))
                => ~BlankScalar(Scalar(Result[n], f))

Similar(a, b) ==
    AtLeastCutoff(string_similarity(normalize_amenity(a), normalize_amenity(b)))

NoFuzzyDuplicates(xs) == \A m, n \in 1..Len(xs) : m # n => ~Similar(xs[m], xs[n])

NoExactDuplicates(imgs) ==
    \A m, n \in 1..Len(imgs) : m # n => json_dumps(imgs[m]) # json_dumps(imgs[n])

ListOf(hotel, outer, inner) == GetDefault(GetDefault(hotel, outer, EmptyDict), inner, <<>>)

\* C4: in every output record the amenity and booking-condition lists hold
\* no two entries whose keys have similarity >= 0.8, and the image lists
\* hold no two entries equal in key-sorted form.
C4_NoDuplicatesInOutput ==
    pc = "done" =>
        \A n \in 1..Len(Result) :
            /\ NoFuzzyDuplicates(ListOf(Result[n], "amenities", "general"))
            /\ NoFuzzyDuplicates(ListOf(Result[n], "amenities", "room"))
            /\ NoFuzzyDuplicates(GetDefault(Result[n], "booking_conditions", <<>>))
            /\ NoExactDuplicates(ListOf(Result[n], "images", "rooms"))
            /\ NoExactDuplicates(ListOf(Result[n], "images", "site"))
            /\ NoExactDuplicates(ListOf(Result[n], "images", "amenities"))

\* C5: fuzzy dedup idempotence: deduplicating the returned list again
\* returns it unchanged.
C5_DedupIdempotent ==
    dpc = "done" => deduplicate_amenities_fuzzy(unique) = unique

\* Every object the heap held before a step is unchanged after it
HeapOnlyGrows ==
    /\ Len(heap') >= Len(heap)
    /\ \A r \in 1..Len(heap) : heap'[r] = heap[r]

InputsUnchanged == \A n \in 1..Len(hotels) : heap[hotels[n]] = hotels0[n]

\* C6: merge_hotel_data never mutates its inputs: every raw record keeps
\* the value it had when the call started, and a step never changes an
\* object that already exists (a merge binds the key to a new object).
C6_InputsNeverMutated == [](InputsUnchanged) /\ [][HeapOnlyGrows]_vars

\* The first record of an id served as accumulator and a merge was stored
C6_Witness ==
    /\ pc = "done"
    /\ Len(heap) > Len(hotels)
    /\ \E n \in 1..Len(merged) : merged[n].ref > Len(hotels)

\* C7: the merge step is total: no exception leaves the call, whichever
\* nested keys or sub-mappings are absent.
C7_MergeTotal == pc # "raised"

ExpectedGeneral(general) ==
    /\ Len(general) = 3
    /\ general[1] = "Pool"
    /\ normalize_amenity(general[2]) = "wifi"
    /\ general[3] = "Gym"

ScenarioRun == pc = "done" /\ hotels0 = <<RecA, RecB>>

\* C8 as stated: the scenario [A, B] yields country "United States".
C8_ScenarioOriginal ==
    ScenarioRun =>
        /\ Len(Result) = 1
        /\ Result[1].location =
               [lat |-> PyNum(445), lng |-> PyNum(-732),
                address |-> PyStr("134 Ocean Drive"),
                city |-> PyStr("Santa Monica"), country |-> PyStr("United States")]
        /\ Result[1].description = "Oceanfront views."
        /\ ExpectedGeneral(Result[1].amenities.general)

\* C8 (amended): the scenario [A, B] yields one record with lat 44.5,
\* lng -73.2, address "134 Ocean Drive", city "Santa Monica", description
\* "Oceanfront views.", amenities.general Pool, one WiFi spelling, Gym, and
\* country "US" as given by A; "United States" is what standardize_country
\* makes of that value.
C8_Scenario ==
    ScenarioRun =>
        /\ Len(Result) = 1
        /\ Result[1].location =
               [lat |-> PyNum(445), lng |-> PyNum(-732),
                address |-> PyStr("134 Ocean Drive"),
                city |-> PyStr("Santa Monica"), country |-> PyStr("US")]
        /\ standardize_country(Result[1].location.country.v) = "United States"
        /\ Result[1].description = "Oceanfront views."
        /\ ExpectedGeneral(Result[1].amenities.general)

C8_Witness == ScenarioRun /\ Len(heap) = 3 /\ merged[1].ref = 3

DescriptionRun(order) == pc = "done" /\ hotels0 = order

\* C9 as stated: both orders of the three X records yield "Ocean views.".
C9_DescriptionOriginal ==
    /\ DescriptionRun(<<RecX1, RecX2, RecX3>>) => Result[1].description = "Ocean views."
    /\ DescriptionRun(<<RecX1, RecX3, RecX2>>) => Result[1].description = "Ocean views."

\* C9 (amended): merging the three X records with descriptions "", "Ocean
\* views.", "A short stay." yields "A short stay." (the longer, 13 against
\* 12 characters), and so does the order with the last two swapped.
C9_Description ==
    /\ DescriptionRun(<<RecX1, RecX2, RecX3>>) =>
            Len(Result) = 1 /\ Result[1].description = "A short stay."
    /\ DescriptionRun(<<RecX1, RecX3, RecX2>>) =>
            Len(Result) = 1 /\ Result[1].description = "A short stay."

C9_Witness == DescriptionRun(<<RecX1, RecX2, RecX3>>) /\ Len(heap) = 5

SpellingRun == dpc = "done" /\ amenities = <<"WiFi", "Wi-Fi">>

\* C10 as stated: ["WiFi", "Wi-Fi"] deduplicates to ["WiFi"].
C10_FirstSpellingOriginal == SpellingRun => unique = <<"WiFi">>

\* C10 (amended): ["WiFi", "Wi-Fi"] deduplicates to the single entry
\* "Wi-Fi": the keys are equal and the later spelling is strictly longer
\* (5 against 4 characters), so it replaces the first.
C10_LongerSpelling == SpellingRun => unique = <<"Wi-Fi">>

C10_Witness == SpellingRun /\ Len(unique) = 1 /\ normalized_unique = <<"wifi">>

\* xs with u as a subsequence: u is matched greedily from the left
RECURSIVE IsSubsequence(_, _)
IsSubsequence(u, xs) ==
    IF u = <<>> THEN TRUE
    ELSE IF xs = <<>> THEN FALSE
    ELSE IF Head(u) = Head(xs) THEN IsSubsequence(Tail(u), Tail(xs))
    ELSE IsSubsequence(u, Tail(xs))

TrimmedInput == [n \in 1..Len(amenities) |-> strip(amenities[n])]

\* C11 as stated: the returned list is a subsequence of the trimmed input.
C11_SubsequenceOriginal == dpc = "done" => IsSubsequence(unique, TrimmedInput)

\* C11 (amended): the returned entries stand in the order in which their
\* representatives were first accepted: there are input positions
\* p[1] < ... < p[n], one per returned entry, such that entry j is the
\* trimmed text of the input at p[j] or of a later, strictly longer input
\* (which took over the place of the one at p[j]); the returned list need
\* not be a subsequence of the trimmed input.
C11_AcceptanceOrder ==
    dpc = "done" =>
        \E p \in [1..Len(unique) -> 1..Len(amenities)] :
            /\ \A m, n \in 1..Len(unique) : m < n => p[m] < p[n]
            /\ \A j \in 1..Len(unique) :
                  \E q \in p[j]..Len(amenities) :
                      /\ TrimmedInput[q] = unique[j]
                      /\ q = p[j] \/ Len(unique[j]) > Len(TrimmedInput[p[j]])

\* A later, longer spelling took the place of the first entry
C11_Witness ==
    /\ dpc = "done"
    /\ amenities = <<"WiFi", "Gym", "Wi-Fi">>
    /\ unique = <<"Wi-Fi", "Gym">>

HasNoOuterBlank(s) ==
    s = "" \/ (Ch(s, 1) \notin {" ", "\t", "\n"} /\ Ch(s, Len(s)) \notin {" ", "\t", "\n"})

\* C13 as stated: [] gives [], and [s] gives [s] with s unchanged, also
\* when s has leading or trailing whitespace.
C13_SingletonOriginal ==
    dpc = "done" /\ Len(amenities) <= 1 => unique = amenities

\* C13 (amended): [] gives [], and [s] gives [s.strip()]: the element with
\* its leading and trailing whitespace removed, which is s itself only
\* when s has none (" Pool " comes back as "Pool").
C13_SingletonTrimmed ==
    /\ dpc = "done" /\ amenities = <<>> => unique = <<>>
    /\ dpc = "done" /\ Len(amenities) = 1 =>
          /\ unique = <<strip(amenities[1])>>
          /\ HasNoOuterBlank(amenities[1]) => unique = amenities
          /\ amenities = <<" Pool ">> => unique = <<"Pool">>

C13_Witness == dpc = "done" /\ amenities = <<" Pool ">> /\ unique = <<"Pool">>

\* The first representative similar to the incoming key, written out
ScanStop(key) ==
    LET hits == {n \in 1..Len(normalized_unique) :
                    AtLeastCutoff(string_similarity(key, normalized_unique[n]))}
    IN IF hits = {} THEN 0 ELSE CHOOSE n \in hits : \A m \in hits : n <= m

StepRule ==
    LET text == strip(amenities[k])
        key == normalize_amenity(amenities[k])
        idx == ScanStop(key)
    IN IF idx = 0
       THEN /\ unique' = Append(unique, text)
            /\ normalized_unique' = Append(normalized_unique, key)
       ELSE /\ Len(unique') = Len(unique)
            /\ Len(normalized_unique') = Len(normalized_unique)
            /\ \A n \in 1..Len(unique) :
                  n # idx => /\ unique'[n] = unique[n]
                             /\ normalized_unique'[n] = normalized_unique[n]
            /\ IF Len(text) > Len(unique[idx])
               THEN unique'[idx] = text /\ normalized_unique'[idx] = key
               ELSE unique'[idx] = unique[idx]
                    /\ normalized_unique'[idx] = normalized_unique[idx]

\* C15: each iteration scans the representatives in order and stops at the
\* first whose key has similarity >= cutoff with the incoming key; that
\* representative's text and key are replaced iff the incoming trimmed text
\* is strictly longer, in place, all others untouched; with no match the
\* trimmed incoming string and its key are appended.
C15_StepRule == [][DedupIterate => StepRule]_vars

\* The scan stopped at "Parking A11" (similarity 0.8) although
\* "Parking B22" is more similar (0.9), and the longer text replaced it
C15_Witness ==
    /\ dpc = "done"
    /\ amenities = <<"Parking A11", "Parking B22", "Parking-B-21">>
    /\ unique = <<"Parking-B-21", "Parking B22">>

Occurrences(x, xs) == Cardinality({n \in 1..Len(xs) : xs[n] = x})

Elements(xs) == {xs[n] : n \in 1..Len(xs)}

IsPermutation(xs, ys) ==
    /\ Len(xs) = Len(ys)
    /\ \A x \in Elements(xs) \cup Elements(ys) : Occurrences(x, xs) = Occurrences(x, ys)

OrderRun == pc = "done" /\ hotels0 = <<RecY1, RecY2>>

\* C16: the fuzzy deduplicator is not commutative, and merge_hotel_data
\* inherits it.  Instance: xs = Y1's general amenities followed by Y2's and
\* ys = Y2's followed by Y1's are permutations of each other whose
\* deduplications differ as sets; and the records Y1, Y2 (one id) merged in
\* the orders [Y1, Y2] and [Y2, Y1] yield different amenities.general.
C16_OrderDependent ==
    OrderRun =>
        LET xs == RecY1.amenities.general \o RecY2.amenities.general
            ys == RecY2.amenities.general \o RecY1.amenities.general
            swapped == merge_hotel_data(<<RecY2, RecY1>>)
        IN /\ IsPermutation(xs, ys)
           /\ Elements(deduplicate_amenities_fuzzy(xs))
                  # Elements(deduplicate_amenities_fuzzy(ys))
           /\ swapped.pc = "done"
           /\ Len(Result) = 1 /\ Len(Output(swapped)) = 1
           /\ Elements(Result[1].amenities.general)
                  # Elements(Output(swapped)[1].amenities.general)

C16_Witness == OrderRun /\ Result[1].amenities.general = <<"TV-101", "TV111">>

\* sum over the zipped prefix, counted character by character
RECURSIVE ZipCount(_, _)
ZipCount(a, b) ==
    IF a = "" \/ b = "" THEN 0
    ELSE (IF Ch(a, 1) = Ch(b, 1) THEN 1 ELSE 0)
         + ZipCount(SubSeq(a, 2, Len(a)), SubSeq(b, 2, Len(b)))

MetricLaw(a, b) ==
    LET s == string_similarity(a, b)
        t == string_similarity(b, a)
        longer == IF Len(a) >= Len(b) THEN Len(a) ELSE Len(b)
    IN /\ s.den > 0
       /\ longer = 0 => s.num = 0
       /\ longer > 0 => s.num * longer = ZipCount(a, b) * s.den
       /\ s.num * t.den = t.num * s.den
       /\ 0 <= s.num /\ s.num <= s.den
       /\ (s.num = s.den) <=> (a = b /\ a # "")

\* Every key the pool can produce, and the pool's strings themselves
PoolKeys == AmenityPool \cup {normalize_amenity(x) : x \in AmenityPool}

MetricLawOnPool == \A a, b \in PoolKeys : MetricLaw(a, b)

EmptyKeys(xs) == {n \in 1..Len(xs) : normalize_amenity(xs[n]) = ""}

\* C17: string_similarity(a, b) is the number of equal positions of the
\* zipped prefix over the greater length, 0 when both are empty; it is
\* symmetric, within [0, 1], and 1 iff a = b with a non-empty; and strings
\* whose keys are both empty are never merged: each one visited so far has
\* its own representative.
C17_SimilarityMetric ==
    /\ MetricLawOnPool
    /\ dpc \in {"loop", "done"} =>
          /\ \A m \in 1..Len(normalized_unique) :
                (k <= Len(amenities) =>
                    MetricLaw(normalize_amenity(amenities[k]), normalized_unique[m]))
          /\ Cardinality(EmptyKeys(unique))
                = Cardinality(EmptyKeys(SubSeq(amenities, 1, k - 1)))

\* Two strings with empty keys were both kept
C17_Witness ==
    /\ dpc = "done"
    /\ amenities = <<"", "--">>
    /\ unique = <<"", "--">>

TruthyValue(x) == x \notin {PyNone, PyStr(""), PyNum(0)}

FoldFields == {"destination_id", "name"} \cup LocationFields

IndicesOf(id) == {m \in 1..Len(hotels0) : Get(hotels0[m], "id") = id}

Least(S) == CHOOSE n \in S : \A m \in S : n <= m

FirstTruthyKept ==
    pc = "done" =>
        \A n \in 1..Len(Result) :
            LET idxs == IndicesOf(Result[n].id)
            IN /\ Cardinality(idxs) = 1 => Result[n] = hotels0[Least(idxs)]
               /\ Cardinality(idxs) >= 2 =>
                    \A f \in FoldFields :
                        LET truthy == {m \in idxs : TruthyValue(Scalar(hotels0[m], f))}
                        IN truthy # {} =>
                              Scalar(Result[n], f) = Scalar(hotels0[Least(truthy)], f)

NeverOverridden ==
    MergeExisting =>
        LET pos == Lookup(merged, Get(heap[hotels[i]], "id"))
            before == heap[merged[pos].ref]
            after == heap'[merged'[pos].ref]
        IN \A f \in FoldFields :
              TruthyValue(Scalar(before, f)) => Scalar(after, f) = Scalar(before, f)

\* C18: for two or more records of one id, each of destination_id, name,
\* lat, lng, address, city, country in the output is the value of the
\* earliest record whose value is truthy; no merge step replaces a truthy
\* accumulator value; a record whose id occurs once is returned unchanged.
C18_FirstTruthyFold == [](FirstTruthyKept) /\ [][NeverOverridden]_vars

\* Two records with conflicting truthy values; the first one's were kept
C18_Witness ==
    /\ pc = "done"
    /\ hotels0 = <<RecY1, RecY2>>
    /\ Result[1].name = PyStr("Beach Villas")
    /\ Result[1].location.lat = PyNum(13)

\* ---- C12 -----------------------------------------------------------------
\* A dict of exactly the fields link and description
IsImage(item) ==
    /\ Len(item) = 2
    /\ HasKey(item, "link")
    /\ HasKey(item, "description")

\* Python dict equality: the same fields with the same values, in any order
SameImage(a, b) == {a[n] : n \in 1..Len(a)} = {b[n] : n \in 1..Len(b)}

\* Positions of the items no earlier item is equal to
FirstOccurrences(xs) ==
    {n \in 1..Len(xs) : \A m \in 1..(n - 1) : ~SameImage(xs[m], xs[n])}

\* The j-th smallest element of a set of numbers
Nth(S, j) == CHOOSE n \in S : Cardinality({m \in S : m < n}) = j - 1

ImageRun ==
    /\ lpc = "done"
    /\ items_kind = "dict"
    /\ \A n \in 1..Len(items) : IsImage(items[n])

\* C12: deduplicate_list on a list of {link, description} items returns one
\* item per first occurrence, in the order of the first occurrences, each
\* equal as a dict to that first occurrence (so an item is dropped iff an
\* earlier item has the same fields and values, whatever the field order);
\* items with different links stay different items of the result; the empty
\* list gives the empty list.
C12_ExactImageDedup ==
    ImageRun =>
        LET F == FirstOccurrences(items)
        IN /\ Len(returned) = Cardinality(F)
           /\ \A j \in 1..Len(returned) : SameImage(returned[j], items[Nth(F, j)])
           /\ \A m, n \in 1..Len(items) :
                 ValueOf(items[m], "link") # ValueOf(items[n], "link") =>
                     \E a, b \in 1..Len(returned) :
                         /\ a # b
                         /\ SameImage(returned[a], items[m])
                         /\ SameImage(returned[b], items[n])
           /\ items = <<>> => returned = <<>>

\* A duplicate in the other field order was dropped, a different link kept
C12_Witness ==
    /\ ImageRun
    /\ items = <<Image("u1", "Double room"), Image("u2", "Double room"),
                 ImageReversed("u1", "Double room")>>
    /\ Len(returned) = 2

\* ---- C14 -----------------------------------------------------------------
\* A supplier fails: the request fails, the body is not JSON or not a list,
\* or some item of the list cannot be parsed
SupplierFails(n) ==
    IF payloads[n].kind # "list" THEN TRUE
    ELSE \E j \in 1..Len(payloads[n].data) : payloads[n].data[j] = "bad"

\* The complete record list of a supplier that did not fail
CompleteRecords(n) ==
    [j \in 1..Len(payloads[n].data) |-> Parsed(SUPPLIERS[n], payloads[n].data[j])]

RECURSIVE ExpectedHotels(_)
ExpectedHotels(n) ==
    IF n = 0 THEN <<>>
    ELSE ExpectedHotels(n - 1) \o (IF SupplierFails(n) THEN <<>> ELSE CompleteRecords(n))

\* C14: whichever suppliers fail, fetch_hotels_from_suppliers returns the
\* concatenation, in the order acme, patagonia, paperflies, of the complete
\* record lists of exactly the suppliers that did not fail; a failing
\* supplier contributes nothing and every supplier is visited.
C14_FailureIsolation ==
    fpc = "done" =>
        /\ si = Len(SUPPLIERS) + 1
        /\ all_hotels = ExpectedHotels(Len(SUPPLIERS))

====
